---- MODULE Spec2Model ----
(***************************************************************************)
(* The BTC anchoring service: the persistent indices of its schema, the    *)
(* lifecycle and Configure operations of src/src/service.rs, the Config    *)
(* helpers of src/src/config.rs, the SignInput / AddFunds handlers and    *)
(* the proposal builder they rely on, and the chain updater and Bitcoin    *)
(* sync tasks of the validators' host processes.                           *)
(***************************************************************************)
EXTENDS Integers, Sequences, FiniteSets, TLC

VARIABLES
    actual_config,                \* Option<Config>: << >> or <<cfg>>
    following_config,             \* Option<Config>
    anchoring_txs_chain,          \* sequence of finalized anchoring transactions
    transaction_signatures,       \* (tx_id, input) -> (validator index -> signature)
    unspent_funding_transaction,  \* Option<Transaction>
    spent_funding_transactions,   \* set of transaction ids
    anchored_blocks,              \* sequence of block hashes kept by the service
    block_hashes,                 \* the core schema's block_hashes_by_height
    last,                         \* the last call, its arguments and result
    admin_ops,                    \* number of accepted apply_config and AddFunds
    tx_pool,                      \* SignInput messages waiting for execution
    round                         \* the chain updater runs since the last block

vars == << actual_config, following_config, anchoring_txs_chain,
           transaction_signatures, unspent_funding_transaction,
           spent_funding_transactions, anchored_blocks, block_hashes, last,
           admin_ops, tx_pool, round >>

\* The state of the validators' host processes.
offchain == << tx_pool, round >>

schema == << actual_config, following_config, anchoring_txs_chain,
             transaction_signatures, unspent_funding_transaction,
             spent_funding_transactions, anchored_blocks, block_hashes >>

-----------------------------------------------------------------------------
(* Bounds of the model.                                                     *)

\* The highest block whose hash the service records.
MaxHeight == 2

\* Number of accepted apply_config and AddFunds calls in a behaviour.
MaxAdminOps == 1

\* The largest committee and the largest anchoring interval of the
\* configurations the Config helpers are exercised with.
MaxKeys == 4

MaxInterval == 2

-----------------------------------------------------------------------------
(* Option values and small helpers.                                         *)

None == << >>

Some(x) == << x >>

IsSome(o) == o # << >>

Unwrap(o) == o[1]

Last(s) == s[Len(s)]

RECURSIVE SumSeq(_)
SumSeq(s) == IF s = << >> THEN 0 ELSE Head(s) + SumSeq(Tail(s))

\* The k smallest elements of a set of numbers, in ascending order.
RECURSIVE FirstAscending(_, _)
FirstAscending(S, k) ==
    IF k = 0 \/ S = {} THEN << >>
    ELSE LET m == CHOOSE x \in S : \A y \in S : x <= y
         IN  << m >> \o FirstAscending(S \ {m}, k - 1)

-----------------------------------------------------------------------------
(* Keys, committees and Bitcoin transactions.                               *)

AnchoringKeys(b, s) == [bitcoin_key |-> b, service_key |-> s]

\* A committee of four validators (quorum 3), as in the test kit's default.
KeysA == << AnchoringKeys(11, 1), AnchoringKeys(12, 2),
            AnchoringKeys(13, 3), AnchoringKeys(14, 4) >>

\* A committee of one validator (quorum 1).
KeysB == << AnchoringKeys(12, 2) >>

\* A committee of two validators (quorum 2).
KeysC == << AnchoringKeys(11, 1), AnchoringKeys(12, 2) >>

KeysNone == << >>

BitcoinKeyOf(s) == 10 + s

\* Output scripts. The P2WSH script of a redeem script is a hash of it, which
\* is modelled as the pair it is computed from.
P2wsh(quorum, keys) == [kind |-> "p2wsh", quorum |-> quorum, keys |-> keys]

OtherScript == [kind |-> "other", quorum |-> 0, keys |-> << >>]

TxOut(script, value) == [script |-> script, value |-> value]

OutPoint(txid, vout) == [txid |-> txid, vout |-> vout]

\* A Bitcoin transaction. `nonce` stands for the inputs of a funding
\* transaction, which come from outside the anchoring chain.
Transaction(nonce, ins, outs, payload) ==
    [nonce |-> nonce, ins |-> ins, outs |-> outs, payload |-> payload,
     witness |-> << >>]

\* The transaction id is the hash of the transaction without its witness data.
id(tx) == [tx EXCEPT !.witness = << >>]

prev_tx_id(tx) == tx.ins[1].txid

\* Transaction::find_out: the index (from 0) of the first output paying
\* `script`, if any.
find_out(tx, script) ==
    LET hits == {i \in 1..Len(tx.outs) : tx.outs[i].script = script}
    IN  IF hits = {} THEN None
        ELSE Some((CHOOSE i \in hits : \A j \in hits : i <= j) - 1)

-----------------------------------------------------------------------------
(* src/src/config.rs                                                        *)

byzantine_quorum_no_plus_one(total) == (total * 2) \div 3

byzantine_quorum_all(total) == total

byzantine_quorum(total) == (total * 2) \div 3 + 1

Config(keys, interval, fee, funding) ==
    [network |-> "Testnet", anchoring_keys |-> keys,
     anchoring_interval |-> interval, transaction_fee |-> fee,
     funding_transaction |-> funding]

BitcoinKeys(cfg) ==
    [n \in 1..Len(cfg.anchoring_keys) |-> cfg.anchoring_keys[n].bitcoin_key]

\* RedeemScriptBuilder::to_script: fails without public keys or with a quorum
\* that is zero or exceeds the number of keys.
to_script(keys, quorum) ==
    IF Len(keys) = 0 \/ quorum = 0 \/ quorum > Len(keys) THEN None
    ELSE Some([quorum |-> quorum, keys |-> keys])

script_result(cfg) ==
    to_script(BitcoinKeys(cfg), byzantine_quorum(Len(cfg.anchoring_keys)))

\* Config::redeem_script unwraps the builder's result: it panics when the
\* builder fails.
redeem_script_panics(cfg) == ~IsSome(script_result(cfg))

redeem_script(cfg) == Unwrap(script_result(cfg))

anchoring_out_script(cfg) ==
    P2wsh(redeem_script(cfg).quorum, redeem_script(cfg).keys)

anchoring_address_without_script(cfg) == [network |-> cfg.network]

anchoring_address(cfg) ==
    [network |-> cfg.network, script |-> anchoring_out_script(cfg)]

find_bitcoin_key_any(cfg, service_key) ==
    Some(<< 0, BitcoinKeyOf(service_key) >>)

\* Config::find_bitcoin_key: the index (from 0) and bitcoin key of the first
\* entry with the given service key.
find_bitcoin_key(cfg, service_key) ==
    LET hits == {n \in 1..Len(cfg.anchoring_keys) :
                    cfg.anchoring_keys[n].service_key = service_key}
    IN  IF hits = {} THEN None
        ELSE LET n == CHOOSE x \in hits : \A y \in hits : x <= y
             IN  Some(<< n - 1, cfg.anchoring_keys[n].bitcoin_key >>)

previous_anchoring_height(cfg, current_height) ==
    current_height - (current_height % cfg.anchoring_interval)

following_anchoring_height_next_block(cfg, current_height) ==
    current_height + 1

following_anchoring_height(cfg, current_height) ==
    previous_anchoring_height(cfg, current_height) + cfg.anchoring_interval

\* ValidateInput for Config.
validate_without_funding_check(cfg) == IsSome(script_result(cfg))

validate(cfg) ==
    IF ~IsSome(script_result(cfg)) THEN FALSE
    ELSE IF IsSome(cfg.funding_transaction)
            /\ ~IsSome(find_out(Unwrap(cfg.funding_transaction),
                                anchoring_out_script(cfg)))
         THEN FALSE
         ELSE TRUE


-----------------------------------------------------------------------------
(* Inputs of the operations.                                                *)

\* Funding transactions: each has one output.
FundingTx(nonce, script) ==
    Transaction(nonce, << >>, << TxOut(script, 2) >>, None)

\* The script a committee's funds are paid to.
committee_script(keys) ==
    P2wsh(byzantine_quorum(Len(keys)),
          [n \in 1..Len(keys) |-> keys[n].bitcoin_key])

FundA == FundingTx(1, committee_script(KeysA))

FundB1 == FundingTx(2, committee_script(KeysB))

FundX == FundingTx(4, OtherScript)

\* Two deployments are explored. In the first the four-validator committee
\* KeysA anchors with the funds of its configuration; in the second the
\* committees KeysB and KeysC take turns and validators add funds.
ConfigA == Config(KeysA, 1, 1, Some(FundA))

ParamsA == { ConfigA, Config(KeysNone, 1, 1, None) }

ParamsB ==
    { Config(KeysB, 1, 1, Some(FundB1)),
      Config(KeysB, 2, 1, None),
      Config(KeysC, 1, 1, None),
      Config(KeysNone, 1, 1, None) }

\* The serialized form of a configuration, and bytes that decode to none.
to_bytes(cfg) == << "pb", cfg >>

Garbage == << "garbage", Config(KeysNone, 0, 0, None) >>

from_bytes(bytes) == IF bytes[1] = "pb" THEN Some(bytes[2]) ELSE None

Supervisor == "supervisor"

Callers == {Supervisor, "service", "transaction"}

verify_caller_is_anyone(caller) == TRUE

verify_caller_is_supervisor(caller) == caller = Supervisor

BlockHash(height) == 100 + height

\* The last call, its arguments and what it returned. The runtime takes the
\* result of a call before it makes the next one.
Result(op, args, result) ==
    [op |-> op, args |-> args, result |-> result, value |-> << >>]

\* A call that returned a value.
Value(op, args, value) ==
    [op |-> op, args |-> args, result |-> "Ok", value |-> << value >>]

Idle == Result("idle", << >>, "Ok")

IsIdle == last.op = "idle"

Returned(op, result) == last.op = op /\ last.result = result


-----------------------------------------------------------------------------
(* src/src/service.rs                                                       *)

Init ==
    /\ actual_config = None
    /\ following_config = None
    /\ anchoring_txs_chain = << >>
    /\ transaction_signatures = << >>
    /\ unspent_funding_transaction = None
    /\ spent_funding_transactions = {}
    /\ anchored_blocks = << >>
    /\ block_hashes = << BlockHash(0) >>
    /\ last = Idle
    /\ admin_ops = 0
    /\ tx_pool = {}
    /\ round = [ran |-> {}, base |-> 0, proposal |-> None, executing |-> FALSE]

\* The service instance has been started by a successful initialize, and
\* no call is being executed.
Started == IsSome(actual_config) /\ IsIdle

\* The runtime takes the result of the last call.
take_result ==
    /\ ~IsIdle
    /\ last' = Idle
    /\ UNCHANGED << schema, admin_ops >>

\* Service::initialize
initialize(params) ==
    /\ ~IsSome(actual_config)
    /\ IsIdle
    /\ LET decoded == from_bytes(params)
       IN  IF ~IsSome(decoded) \/ ~validate(Unwrap(decoded))
           THEN /\ last' = Result("initialize", << params >>, "MalformedArguments")
                /\ UNCHANGED << schema, admin_ops >>
           ELSE LET config == Unwrap(decoded)
                IN  /\ unspent_funding_transaction' =
                           IF IsSome(config.funding_transaction)
                           THEN config.funding_transaction
                           ELSE unspent_funding_transaction
                    /\ actual_config' = Some(config)
                    /\ last' = Result("initialize", << params >>, "Ok")
                    /\ UNCHANGED << following_config, anchoring_txs_chain,
                                    transaction_signatures,
                                    spent_funding_transactions,
                                    anchored_blocks, block_hashes, admin_ops >>

before_commit_next_block ==
    /\ Started
    /\ Len(anchored_blocks) <= MaxHeight
    /\ anchored_blocks' = Append(anchored_blocks,
                                 BlockHash(Len(block_hashes)))
    /\ block_hashes' = Append(block_hashes, BlockHash(Len(block_hashes)))
    /\ last' = Result("before_commit", << >>, "Ok")
    /\ UNCHANGED << actual_config, following_config, anchoring_txs_chain,
                    transaction_signatures, unspent_funding_transaction,
                    spent_funding_transactions, admin_ops >>

\* Service::before_commit, followed by the commit of the block.
before_commit ==
    /\ Started
    /\ Len(anchored_blocks) <= MaxHeight
    /\ anchored_blocks' = Append(anchored_blocks, Last(block_hashes))
    /\ block_hashes' = Append(block_hashes, BlockHash(Len(block_hashes)))
    /\ last' = Result("before_commit", << >>, "Ok")
    /\ UNCHANGED << actual_config, following_config, anchoring_txs_chain,
                    transaction_signatures, unspent_funding_transaction,
                    spent_funding_transactions, admin_ops >>

\* Configure::verify_config
verify_config(caller, params) ==
    /\ Started
    /\ last' = Result("verify_config", << caller, params >>,
                      IF ~verify_caller_is_supervisor(caller)
                      THEN "UnauthorizedCaller"
                      ELSE IF ~validate(params) THEN "MalformedArguments"
                           ELSE "Ok")
    /\ UNCHANGED << schema, admin_ops >>

\* Configure::apply_config. Deriving the address of a configuration without
\* keys panics; the runtime then discards the changes of the call.
apply_config(caller, params) ==
    /\ Started
    /\ IF ~verify_caller_is_supervisor(caller)
       THEN /\ last' = Result("apply_config", << caller, params >>,
                              "UnauthorizedCaller")
            /\ UNCHANGED << schema, admin_ops >>
       ELSE IF redeem_script_panics(Unwrap(actual_config))
               \/ redeem_script_panics(params)
       THEN /\ last' = Result("apply_config", << caller, params >>,
                              "Panic")
            /\ UNCHANGED << schema, admin_ops >>
       ELSE /\ admin_ops < MaxAdminOps
            /\ admin_ops' = admin_ops + 1
            /\ unspent_funding_transaction' =
                   IF IsSome(params.funding_transaction)
                   THEN params.funding_transaction
                   ELSE unspent_funding_transaction
            /\ IF anchoring_address(Unwrap(actual_config))
                      = anchoring_address(params)
               THEN /\ actual_config' = Some(params)
                    /\ UNCHANGED following_config
               ELSE /\ following_config' = Some(params)
                    /\ UNCHANGED actual_config
            /\ last' = Result("apply_config", << caller, params >>,
                              "Ok")
            /\ UNCHANGED << anchoring_txs_chain, transaction_signatures,
                            spent_funding_transactions, anchored_blocks,
                            block_hashes >>


-----------------------------------------------------------------------------
(* Proposal builder.                                                        *)

NoTx == Transaction(0, << >>, << >>, None)

ProposalState(state, tx, balance, total_fee) ==
    [state |-> state, tx |-> tx, balance |-> balance, total_fee |-> total_fee]

\* Committee transition: the following configuration becomes the actual one
\* once the last anchoring transaction pays its address. The result is the
\* pair of configuration slots the proposal is built under.
promoted_configs ==
    IF /\ IsSome(following_config)
       /\ anchoring_txs_chain # << >>
       /\ ~redeem_script_panics(Unwrap(following_config))
       /\ Last(anchoring_txs_chain).outs[1].script
              = anchoring_out_script(Unwrap(following_config))
    THEN << following_config, None >>
    ELSE << actual_config, following_config >>

\* The values of the outputs the inputs spend.
input_values(ins) ==
    [i \in 1..Len(ins) |-> ins[i].txid.outs[ins[i].vout + 1].value]

\* The virtual size of the signed transaction, in fee units.
vsize(ins) == Len(ins)

funding_is_attachable ==
    /\ IsSome(unspent_funding_transaction)
    /\ id(Unwrap(unspent_funding_transaction)) \notin spent_funding_transactions

funding_input == OutPoint(id(Unwrap(unspent_funding_transaction)), 0)

proposal_inputs_funding_first ==
    IF anchoring_txs_chain = << >>
    THEN << funding_input >>
    ELSE (IF funding_is_attachable THEN << funding_input >> ELSE << >>)
         \o << OutPoint(id(Last(anchoring_txs_chain)), 0) >>

\* The inputs of the proposal: the prev-input, then the funding input.
proposal_inputs ==
    IF anchoring_txs_chain = << >>
    THEN << funding_input >>
    ELSE << OutPoint(id(Last(anchoring_txs_chain)), 0) >>
         \o (IF funding_is_attachable THEN << funding_input >> ELSE << >>)

proposal_out_script_of_actual(cfg, fol) == anchoring_out_script(cfg)

\* The script output 0 pays: the following committee's while a change of the
\* anchoring address is pending, the actual committee's otherwise.
proposal_out_script(cfg, fol) ==
    IF IsSome(fol) /\ ~redeem_script_panics(Unwrap(fol))
       /\ anchoring_out_script(Unwrap(fol)) # anchoring_out_script(cfg)
    THEN anchoring_out_script(Unwrap(fol))
    ELSE anchoring_out_script(cfg)

\* The height the proposal anchors: 0 for the first anchoring transaction,
\* then the anchoring height that follows the latest anchored one.
latest_anchored_height ==
    Unwrap(Last(anchoring_txs_chain).payload).block_height

next_anchoring_height(cfg) ==
    IF anchoring_txs_chain = << >> THEN 0
    ELSE following_anchoring_height(cfg, latest_anchored_height)

build_proposal(cfg, fol) ==
    IF anchoring_txs_chain # << >> /\ cfg.anchoring_interval = 0
    THEN ProposalState("Panic", NoTx, 0, 0)
    ELSE
    LET height == next_anchoring_height(cfg)
    IN  IF Len(anchored_blocks) <= height
        THEN ProposalState("None", NoTx, 0, 0)
        ELSE IF anchoring_txs_chain = << >>
                /\ ~IsSome(unspent_funding_transaction)
        THEN ProposalState("NoInitialFunds", NoTx, 0, 0)
        ELSE
        LET ins == proposal_inputs
            available == SumSeq(input_values(ins))
            total_fee == cfg.transaction_fee * vsize(ins)
        IN  IF available < total_fee
            THEN ProposalState("InsufficientFunds", NoTx, available, total_fee)
            ELSE ProposalState("Available",
                     Transaction(0, ins,
                         << TxOut(proposal_out_script(cfg, fol),
                                  available - total_fee) >>,
                         Some([block_height |-> height,
                               block_hash |-> anchored_blocks[height + 1]])),
                     available, total_fee)

\* The current proposal, as the on-chain handlers see it.
anchoring_proposal ==
    build_proposal(Unwrap(promoted_configs[1]), promoted_configs[2])


-----------------------------------------------------------------------------
(* Transaction handlers.                                                    *)

SignInput(author, transaction, input, input_signature) ==
    [author |-> author, transaction |-> transaction, input |-> input,
     input_signature |-> input_signature]

AddFunds(author, transaction) ==
    [author |-> author, transaction |-> transaction]

\* The SegWit signature hash of an input, and signatures over it.
sighash(tx, input) == [txid |-> id(tx), input |-> input]

sign(bitcoin_key, hash) == [key |-> bitcoin_key, hash |-> hash]

verify_signature(bitcoin_key, hash, signature) ==
    signature = sign(bitcoin_key, hash)

input_signatures_missing(signatures, txid, input) == << >>

\* The signatures recorded for an input: validator index -> signature.
input_signatures(signatures, txid, input) ==
    IF << txid, input >> \in DOMAIN signatures
    THEN signatures[<< txid, input >>]
    ELSE << >>

put(map, key, value) ==
    [k \in DOMAIN map \cup {key} |-> IF k = key THEN value ELSE map[k]]

Inputs(tx) == 0..(Len(tx.ins) - 1)

has_quorum(signatures, tx, quorum) ==
    \A i \in Inputs(tx) :
        Cardinality(DOMAIN input_signatures(signatures, id(tx), i)) >= quorum

\* The witness of an input: the first `quorum` signatures by validator index.
input_witness(signatures, tx, input, quorum) ==
    LET map == input_signatures(signatures, id(tx), input)
        chosen == FirstAscending(DOMAIN map, quorum)
    IN  [j \in 1..Len(chosen) |-> map[chosen[j]]]

finalize(signatures, tx, quorum) ==
    [tx EXCEPT !.witness =
        [i \in 1..Len(tx.ins) |-> input_witness(signatures, tx, i - 1, quorum)]]

push_replacing_last(chain, tx) ==
    IF chain = << >> THEN << tx >>
    ELSE [chain EXCEPT ![Len(chain)] = tx]

\* ProofListIndex::push on the anchoring chain.
push(chain, tx) == Append(chain, tx)

\* The SignInput handler. A rejected transaction changes nothing.
sign_input(msg) ==
    /\ Started
    /\ LET cfg == Unwrap(promoted_configs[1])
           proposal == anchoring_proposal
           found == find_bitcoin_key(cfg, msg.author)
           tx == msg.transaction
           reject(error) == /\ last' = Result("sign_input", << msg >>, error)
                            /\ UNCHANGED << schema, admin_ops >>
       IN  IF proposal.state = "Panic" THEN reject("Panic")
           ELSE IF ~IsSome(found) THEN reject("UnauthorizedSender")
           ELSE IF proposal.state # "Available" \/ id(tx) # id(proposal.tx)
           THEN reject("UnexpectedProposal")
           ELSE IF msg.input \notin Inputs(tx)
                   \/ ~verify_signature(Unwrap(found)[2],
                                        sighash(tx, msg.input),
                                        msg.input_signature)
           THEN reject("InvalidSignature")
           ELSE
           LET n == Unwrap(found)[1]
               old == input_signatures(transaction_signatures, id(tx), msg.input)
           IN  IF n \in DOMAIN old THEN reject("AlreadySigned")
               ELSE
               LET signatures == put(transaction_signatures,
                                     << id(tx), msg.input >>,
                                     put(old, n, msg.input_signature))
                   quorum == byzantine_quorum(Len(cfg.anchoring_keys))
                   spends_funding ==
                       /\ IsSome(unspent_funding_transaction)
                       /\ \E i \in 1..Len(tx.ins) : tx.ins[i] = funding_input
               IN  /\ transaction_signatures' = signatures
                   /\ actual_config' = promoted_configs[1]
                   /\ following_config' = promoted_configs[2]
                   /\ IF has_quorum(signatures, tx, quorum)
                      THEN /\ anchoring_txs_chain' =
                                  push(anchoring_txs_chain,
                                       finalize(signatures, tx, quorum))
                           /\ IF spends_funding
                              THEN /\ unspent_funding_transaction' = None
                                   /\ spent_funding_transactions' =
                                          spent_funding_transactions
                                          \cup {id(Unwrap(unspent_funding_transaction))}
                              ELSE UNCHANGED << unspent_funding_transaction,
                                                spent_funding_transactions >>
                      ELSE UNCHANGED << anchoring_txs_chain,
                                        unspent_funding_transaction,
                                        spent_funding_transactions >>
                   /\ last' = Result("sign_input", << msg >>, "Ok")
                   /\ UNCHANGED << anchored_blocks, block_hashes, admin_ops >>

\* The AddFunds handler.
add_funds(msg) ==
    /\ Started
    /\ LET cfg == Unwrap(actual_config)
           reject(error) == /\ last' = Result("add_funds", << msg >>, error)
                            /\ UNCHANGED << schema, admin_ops >>
       IN  IF ~IsSome(find_bitcoin_key(cfg, msg.author))
           THEN reject("UnauthorizedSender")
           ELSE IF ~IsSome(find_out(msg.transaction, anchoring_out_script(cfg)))
           THEN reject("UnsuitableFundingTx")
           ELSE IF IsSome(unspent_funding_transaction)
           THEN reject("FundingTxPending")
           ELSE IF id(msg.transaction) \in spent_funding_transactions
           THEN reject("AlreadyUsedFundingTx")
           ELSE /\ admin_ops < MaxAdminOps
                /\ admin_ops' = admin_ops + 1
                /\ unspent_funding_transaction' = Some(msg.transaction)
                /\ last' = Result("add_funds", << msg >>, "Ok")
                /\ UNCHANGED << actual_config, following_config,
                                anchoring_txs_chain, transaction_signatures,
                                spent_funding_transactions, anchored_blocks,
                                block_hashes >>

-----------------------------------------------------------------------------
(* The calls and messages that may be executed in a state.                  *)

DeploymentA ==
    IsSome(actual_config) /\ Unwrap(actual_config).anchoring_keys = KeysA

\* Configurations passed to verify_config and apply_config.
ConfigParams == IF DeploymentA THEN ParamsA ELSE ParamsB

\* Host-chain keys that author transactions; 9 belongs to no committee.
ServiceKeys == IF DeploymentA THEN {1, 2, 3, 4, 9} ELSE {1, 2, 9}

\* SignInput messages: they refer to the current proposal, to the latest
\* finalized transaction (a stale proposal) or to an unrelated transaction,
\* and are signed with the author's key or with a key of no validator.
SignInputMsgs ==
    LET BogusTx == Transaction(9, << >>, << TxOut(OtherScript, 0) >>, None)
        SignInputTxs ==
            (IF anchoring_proposal.state = "Available"
             THEN {anchoring_proposal.tx} ELSE {})
            \cup (IF anchoring_txs_chain # << >>
                  THEN {id(Last(anchoring_txs_chain))} ELSE {BogusTx})
    IN  { SignInput(a, t, i,
                    sign(IF own THEN BitcoinKeyOf(a) ELSE BitcoinKeyOf(9),
                         sighash(t, i))) :
            a \in ServiceKeys, t \in SignInputTxs, i \in {0, 1},
            own \in BOOLEAN }

Next ==
    \/ \E params \in {to_bytes(c) : c \in ParamsA \cup ParamsB} \cup {Garbage} :
           initialize(params) /\ UNCHANGED offchain
    \/ before_commit /\ UNCHANGED offchain
    \/ \E caller \in Callers, params \in ConfigParams :
           verify_config(caller, params) /\ UNCHANGED offchain
    \/ \E caller \in Callers, params \in ConfigParams :
           apply_config(caller, params) /\ UNCHANGED offchain
    \/ \E msg \in SignInputMsgs : sign_input(msg) /\ UNCHANGED offchain
    \/ \E a \in ServiceKeys,
          t \in (IF DeploymentA
                 THEN {FundA, FundX}
                 ELSE {FundB1, FundingTx(3, committee_script(KeysB)), FundX}) :
           add_funds(AddFunds(a, t)) /\ UNCHANGED offchain
    \/ take_result /\ UNCHANGED offchain

Spec == Init /\ [][Next]_vars

-----------------------------------------------------------------------------
(* Properties of the service.                                               *)

\* The quorum of a committee, written out: floor(2N/3) + 1.
StatedQuorum(cfg) == (2 * Len(cfg.anchoring_keys)) \div 3 + 1

\* C1: the chain grows only by a SignInput execution, by one transaction,
\* and after that execution every input of the appended transaction holds
\* at least floor(2N/3) + 1 recorded signatures of distinct validators of
\* the committee of actual_config (N its number of anchoring keys); the
\* signatures recorded for a transaction of the chain never change
\* afterwards, so no transaction of the chain ever has an input with fewer.
C1_QuorumFinalization ==
    [][/\ anchoring_txs_chain' # anchoring_txs_chain =>
             /\ last'.op = "sign_input"
             /\ Len(anchoring_txs_chain') = Len(anchoring_txs_chain) + 1
             /\ LET tx == Last(anchoring_txs_chain')
                    cfg == Unwrap(actual_config')
                IN  \A i \in Inputs(tx) :
                        LET map == input_signatures(transaction_signatures',
                                                    id(tx), i)
                        IN  /\ Cardinality(DOMAIN map) >= StatedQuorum(cfg)
                            /\ \A n \in DOMAIN map :
                                   /\ n + 1 \in 1..Len(cfg.anchoring_keys)
                                   /\ verify_signature(
                                          cfg.anchoring_keys[n + 1].bitcoin_key,
                                          sighash(tx, i), map[n])
       /\ \A k \in 1..Len(anchoring_txs_chain) :
              \A i \in Inputs(anchoring_txs_chain[k]) :
                  input_signatures(transaction_signatures',
                                   id(anchoring_txs_chain[k]), i)
                  = input_signatures(transaction_signatures,
                                     id(anchoring_txs_chain[k]), i)
      ]_vars

\* The four-validator committee has finalized a transaction with the third
\* signature of its input.
C1_Witness ==
    /\ Returned("sign_input", "Ok")
    /\ anchoring_txs_chain # << >>
    /\ Len(Unwrap(actual_config).anchoring_keys) = 4
    /\ Cardinality(DOMAIN input_signatures(transaction_signatures,
                        id(Last(anchoring_txs_chain)), 0)) = 3

\* C2: the chain is append-only: every step of every operation keeps the
\* transactions already in the chain, in their positions.
C2_AppendOnly ==
    [][/\ Len(anchoring_txs_chain') >= Len(anchoring_txs_chain)
       /\ SubSeq(anchoring_txs_chain', 1, Len(anchoring_txs_chain))
              = anchoring_txs_chain
      ]_vars

\* A second transaction has been appended behind the first.
C2_Witness ==
    /\ Len(anchoring_txs_chain) >= 2
    /\ Returned("sign_input", "Ok")

\* C3: the prev-input (input 0) of every transaction of the chain but the
\* first spends output 0 of its predecessor; the prev-input of the first
\* spends a funding transaction, and no other prev-input does.
C3_ChainLinkage ==
    \A k \in 1..Len(anchoring_txs_chain) :
        LET prev_input == anchoring_txs_chain[k].ins[1]
        IN  IF k = 1
            THEN ~IsSome(prev_input.txid.payload)
            ELSE /\ prev_input = OutPoint(id(anchoring_txs_chain[k - 1]), 0)
                 /\ IsSome(prev_input.txid.payload)

\* The second transaction of the chain spends its predecessor and a funding
\* transaction.
C3_Witness ==
    /\ Len(anchoring_txs_chain) >= 2
    /\ Len(anchoring_txs_chain[2].ins) = 2

PayloadOf(tx) == Unwrap(tx.payload)

\* C4: every transaction of the chain carries a payload whose block_hash is
\* the entry of anchored_blocks at its block_height, and when a transaction
\* is created and appended its block_height is a multiple of the
\* anchoring_interval of the configuration active in that step.
C4_PayloadAnchorsBlock ==
    [][/\ \A k \in 1..Len(anchoring_txs_chain') :
              LET tx == anchoring_txs_chain'[k]
              IN  /\ IsSome(tx.payload)
                  /\ PayloadOf(tx).block_height + 1
                         \in 1..Len(anchored_blocks')
                  /\ PayloadOf(tx).block_hash
                         = anchored_blocks'[PayloadOf(tx).block_height + 1]
       /\ Len(anchoring_txs_chain') > Len(anchoring_txs_chain) =>
              LET interval == Unwrap(actual_config').anchoring_interval
                  height == PayloadOf(Last(anchoring_txs_chain')).block_height
              IN  /\ interval >= 1
                  /\ \E m \in 0..height : height = m * interval
      ]_vars

\* A transaction anchoring height 2 has just been created under interval 2,
\* behind the transaction that anchored the genesis block.
C4_Witness ==
    /\ Returned("sign_input", "Ok")
    /\ Len(anchoring_txs_chain) = 2
    /\ Unwrap(actual_config).anchoring_interval = 2
    /\ PayloadOf(Last(anchoring_txs_chain)).block_height = 2

ChainIds == { id(anchoring_txs_chain[k]) : k \in 1..Len(anchoring_txs_chain) }

\* C5, as stated: every entry (tx_id, input) of transaction_signatures that
\* holds at least quorum signatures belongs to a transaction of the chain.
C5_AnyInputWithQuorumIsFinalized ==
    IsSome(actual_config) =>
        \A key \in DOMAIN transaction_signatures :
            Cardinality(DOMAIN transaction_signatures[key])
                >= StatedQuorum(Unwrap(actual_config))
            => key[1] \in ChainIds

\* C5, amended: whenever a SignInput execution records a signature and
\* leaves every input of the transaction with at least quorum signatures
\* (floor(2N/3) + 1, N the number of anchoring keys of actual_config after
\* the execution), the transaction is in the chain after that execution.
C5_AllInputsWithQuorumIsFinalized ==
    [][\A key \in DOMAIN transaction_signatures' :
          (/\ transaction_signatures'[key]
                 # input_signatures(transaction_signatures, key[1], key[2])
           /\ \A i \in Inputs(key[1]) :
                  Cardinality(DOMAIN input_signatures(transaction_signatures',
                                                      key[1], i))
                      >= StatedQuorum(Unwrap(actual_config')))
          => \E k \in 1..Len(anchoring_txs_chain') :
                 id(anchoring_txs_chain'[k]) = key[1]
      ]_vars

\* The last signature of the second input of a two-input transaction has
\* just been recorded and the transaction is in the chain.
C5_Witness ==
    /\ Returned("sign_input", "Ok")
    /\ anchoring_txs_chain # << >>
    /\ Len(Last(anchoring_txs_chain).ins) = 2
    /\ << id(Last(anchoring_txs_chain)), 1 >> \in DOMAIN transaction_signatures

\* C6, as stated for the funding slot: the transaction held in
\* unspent_funding_transaction, if any, is not in spent_funding_transactions.
C6_UnspentIsNotSpent ==
    IsSome(unspent_funding_transaction) =>
        id(Unwrap(unspent_funding_transaction))
            \notin spent_funding_transactions

\* Membership of a committee and the address of a configuration, written
\* out from the configuration's fields.
Member(cfg, service_key) ==
    \E n \in 1..Len(cfg.anchoring_keys) :
        cfg.anchoring_keys[n].service_key = service_key

StatedScript(cfg) == P2wsh(StatedQuorum(cfg), BitcoinKeys(cfg))

StatedAddress(cfg) == [network |-> cfg.network, script |-> StatedScript(cfg)]

\* The preconditions of SignInput, against the committee in force.
SignInputIsProposal(msg) ==
    /\ anchoring_proposal.state = "Available"
    /\ id(msg.transaction) = id(anchoring_proposal.tx)

SignInputVerifies(cfg, msg) ==
    /\ msg.input \in Inputs(msg.transaction)
    /\ \E n \in 1..Len(cfg.anchoring_keys) :
           /\ cfg.anchoring_keys[n].service_key = msg.author
           /\ verify_signature(cfg.anchoring_keys[n].bitcoin_key,
                               sighash(msg.transaction, msg.input),
                               msg.input_signature)

\* The errors the failed preconditions of a SignInput stand for.
SignInputErrors(msg) ==
    LET cfg == Unwrap(promoted_configs[1])
    IN  (IF Member(cfg, msg.author) THEN {} ELSE {"UnauthorizedSender"})
        \cup (IF SignInputIsProposal(msg) THEN {} ELSE {"UnexpectedProposal"})
        \cup (IF SignInputVerifies(cfg, msg) THEN {} ELSE {"InvalidSignature"})

\* C7: a SignInput that records a signature comes from a sender whose
\* service key is in actual_config, refers to the current proposal and
\* carries a signature that verifies under the sender's bitcoin key on the
\* sighash of its input; a SignInput that fails a precondition is rejected
\* with the error of a failed precondition; and every rejected SignInput
\* leaves transaction_signatures, the chain and both funding indices as
\* they were.
C7_SignInputPreconditions ==
    [][last'.op = "sign_input" =>
          LET msg == last'.args[1]
          IN      /\ transaction_signatures' # transaction_signatures =>
                         /\ last'.result = "Ok"
                         /\ Member(Unwrap(actual_config'), msg.author)
                         /\ SignInputIsProposal(msg)
                         /\ SignInputVerifies(Unwrap(actual_config'), msg)
                  /\ SignInputErrors(msg) # {} =>
                         last'.result \in SignInputErrors(msg)
                  /\ last'.result # "Ok" =>
                         UNCHANGED << transaction_signatures,
                                      anchoring_txs_chain,
                                      unspent_funding_transaction,
                                      spent_funding_transactions >>
      ]_vars

\* A committee member's SignInput for the current proposal was rejected for
\* its signature while a signature of another validator is recorded.
C7_Witness ==
    /\ Returned("sign_input", "InvalidSignature")
    /\ anchoring_proposal.state = "Available"
    /\ << id(anchoring_proposal.tx), 0 >> \in DOMAIN transaction_signatures

\* C8: an AddFunds whose sender is a committee member, whose transaction
\* pays the committee's P2WSH address and is not spent, executed while
\* unspent_funding_transaction is empty, sets unspent_funding_transaction
\* to its transaction; every other AddFunds is rejected and leaves
\* unspent_funding_transaction as it was.
C8_AddFundsPreconditions ==
    [][last'.op = "add_funds" =>
          LET msg == last'.args[1]
              AddFundsPreconditions ==
                  /\ Member(Unwrap(actual_config), msg.author)
                  /\ \E i \in 1..Len(msg.transaction.outs) :
                         msg.transaction.outs[i].script
                             = StatedScript(Unwrap(actual_config))
                  /\ ~IsSome(unspent_funding_transaction)
                  /\ id(msg.transaction) \notin spent_funding_transactions
          IN      IF AddFundsPreconditions
                  THEN /\ last'.result = "Ok"
                       /\ unspent_funding_transaction'
                              = Some(msg.transaction)
                  ELSE /\ last'.result # "Ok"
                       /\ UNCHANGED unspent_funding_transaction
      ]_vars

\* An AddFunds of a suitable transaction was rejected because a funding
\* transaction is pending, and the pending one is still in place.
C8_Witness ==
    /\ Returned("add_funds", "FundingTxPending")
    /\ IsSome(unspent_funding_transaction)
    /\ anchoring_txs_chain # << >>

\* What C9 states of an apply_config by the supervisor with params.
ApplyConfigInstalls(params) ==
    /\ IF StatedAddress(params) = StatedAddress(Unwrap(actual_config))
       THEN /\ actual_config' = Some(params)
            /\ UNCHANGED following_config
       ELSE /\ following_config' = Some(params)
            /\ UNCHANGED actual_config
    /\ UNCHANGED << anchoring_txs_chain, transaction_signatures,
                    spent_funding_transactions >>

\* C9, as stated: apply_config by the supervisor installs every params.
C9_ApplyConfigInstallsAny ==
    [][(last'.op = "apply_config" /\ last'.args[1] = Supervisor) =>
          ApplyConfigInstalls(last'.args[2])
      ]_vars

\* C9, amended: apply_config by the supervisor with params that hold at
\* least one anchoring key installs them into actual_config when their
\* address equals the address of actual_config, and into following_config
\* otherwise, leaving the other slot, the chain, the signatures and the
\* spent set as they were; with params without anchoring keys the call
\* is aborted and changes nothing.
C9_ApplyConfigInstallsKeyed ==
    [][(last'.op = "apply_config" /\ last'.args[1] = Supervisor) =>
          LET params == last'.args[2]
          IN      IF Len(params.anchoring_keys) >= 1
                  THEN /\ last'.result = "Ok"
                       /\ ApplyConfigInstalls(params)
                  ELSE /\ last'.result # "Ok"
                       /\ UNCHANGED schema
      ]_vars

\* The supervisor has applied a configuration with another address: it
\* waits in following_config.
C9_Witness ==
    /\ Returned("apply_config", "Ok")
    /\ IsSome(following_config)
    /\ StatedAddress(Unwrap(following_config))
           # StatedAddress(Unwrap(actual_config))

\* C10: verify_config and apply_config by a caller other than the
\* supervisor fail with UnauthorizedCaller, whatever the params, and leave
\* actual_config, following_config and unspent_funding_transaction as
\* they were.
C10_UnauthorizedCaller ==
    [][(/\ last'.op \in {"verify_config", "apply_config"}
        /\ last'.args[1] # Supervisor)
       => /\ last'.result = "UnauthorizedCaller"
          /\ UNCHANGED << actual_config, following_config,
                          unspent_funding_transaction >>
      ]_vars

\* An apply_config by another caller was refused while a funding
\* transaction was pending.
C10_Witness ==
    /\ Returned("apply_config", "UnauthorizedCaller")
    /\ IsSome(unspent_funding_transaction)

-----------------------------------------------------------------------------
(* Configurations: initialize, validation and the Config helpers over every *)
(* configuration of up to MaxKeys keys and intervals up to MaxInterval.     *)

KeysOfSize(n) == [k \in 1..n |-> AnchoringKeys(BitcoinKeyOf(k), k)]

\* Configurations of every size and interval; their funding transaction is
\* none, one that pays the committee, or one that pays somebody else.
ConfigUniverse ==
    LET FundingOf(kind, keys) ==
            IF kind = "none" THEN None
            ELSE IF kind = "own"
            THEN Some(FundingTx(5, committee_script(keys)))
            ELSE Some(FundX)
    IN  { Config(KeysOfSize(n), i, 1, FundingOf(kind, KeysOfSize(n))) :
            n \in 0..MaxKeys, i \in 0..MaxInterval,
            kind \in {"none", "own", "other"} }

HeightArgs == 0..(MaxHeight + MaxInterval)

\* Config::redeem_script of the configuration of the service.
call_redeem_script ==
    /\ Started
    /\ LET cfg == Unwrap(actual_config)
       IN  last' = IF redeem_script_panics(cfg)
                   THEN Result("redeem_script", << cfg >>, "Panic")
                   ELSE Value("redeem_script", << cfg >>, redeem_script(cfg))
    /\ UNCHANGED << schema, admin_ops >>

\* The remainder of a division by zero panics.
anchoring_height_panics(cfg) == cfg.anchoring_interval = 0

\* Config::previous_anchoring_height of the configuration of the service.
call_previous_anchoring_height(h) ==
    /\ Started
    /\ LET cfg == Unwrap(actual_config)
       IN  last' = IF anchoring_height_panics(cfg)
                   THEN Result("previous_anchoring_height", << cfg, h >>,
                               "Panic")
                   ELSE Value("previous_anchoring_height", << cfg, h >>,
                              previous_anchoring_height(cfg, h))
    /\ UNCHANGED << schema, admin_ops >>

\* Config::following_anchoring_height of the configuration of the service.
call_following_anchoring_height(h) ==
    /\ Started
    /\ LET cfg == Unwrap(actual_config)
       IN  last' = IF anchoring_height_panics(cfg)
                   THEN Result("following_anchoring_height", << cfg, h >>,
                               "Panic")
                   ELSE Value("following_anchoring_height", << cfg, h >>,
                              following_anchoring_height(cfg, h))
    /\ UNCHANGED << schema, admin_ops >>

NextConfig ==
    \/ \E params \in {to_bytes(c) : c \in ConfigUniverse} \cup {Garbage} :
           initialize(params) /\ UNCHANGED offchain
    \/ \E caller \in Callers, params \in ConfigUniverse :
           verify_config(caller, params) /\ UNCHANGED offchain
    \/ call_redeem_script /\ UNCHANGED offchain
    \/ \E h \in HeightArgs :
           call_previous_anchoring_height(h) /\ UNCHANGED offchain
    \/ \E h \in HeightArgs :
           call_following_anchoring_height(h) /\ UNCHANGED offchain
    \/ take_result /\ UNCHANGED offchain

SpecConfig == Init /\ [][NextConfig]_vars

\* C11: initialize with params that decode to a configuration passing
\* validation sets actual_config to it and unspent_funding_transaction to
\* its funding transaction, if it has one; with any other params it returns
\* MalformedArguments and writes nothing: actual_config and
\* unspent_funding_transaction stay unset.
C11_Initialize ==
    [][last'.op = "initialize" =>
          LET bytes == last'.args[1]
              cfg == bytes[2]
              PassesValidation ==
                  /\ Len(cfg.anchoring_keys) >= 1
                  /\ IsSome(cfg.funding_transaction) =>
                         \E i \in 1..Len(Unwrap(cfg.funding_transaction).outs) :
                             Unwrap(cfg.funding_transaction).outs[i].script
                                 = StatedScript(cfg)
          IN  IF bytes[1] = "pb" /\ PassesValidation
              THEN /\ last'.result = "Ok"
                   /\ actual_config' = Some(cfg)
                   /\ unspent_funding_transaction' = cfg.funding_transaction
              ELSE /\ last'.result = "MalformedArguments"
                   /\ actual_config' = None
                   /\ unspent_funding_transaction' = None
                   /\ UNCHANGED schema
      ]_vars

\* initialize has refused a configuration that has keys and carries a
\* funding transaction paying somebody else.
C11_Witness ==
    /\ Returned("initialize", "MalformedArguments")
    /\ last.args[1][1] = "pb"
    /\ Len(last.args[1][2].anchoring_keys) >= 1
    /\ IsSome(last.args[1][2].funding_transaction)
    /\ ~IsSome(actual_config)

\* The invariants of a configuration.
ConfigInvariants(cfg) ==
    /\ Len(cfg.anchoring_keys) >= 1
    /\ cfg.anchoring_interval >= 1
    /\ IsSome(cfg.funding_transaction) =>
           \E i \in 1..Len(Unwrap(cfg.funding_transaction).outs) :
               Unwrap(cfg.funding_transaction).outs[i].script
                   = StatedScript(cfg)

\* C12, as stated: every configuration in actual_config or following_config
\* has keys, an anchoring interval of at least 1 and, if it carries a
\* funding transaction, one with an output paying its address.
C12_InstalledConfigsKeepInvariants ==
    /\ IsSome(actual_config) => ConfigInvariants(Unwrap(actual_config))
    /\ IsSome(following_config) => ConfigInvariants(Unwrap(following_config))

\* C13: the redeem script of every valid configuration with N >= 1 keys
\* has quorum floor(2N/3) + 1, which lies between 1 and N.
C13_RedeemScriptQuorum ==
    last.op = "redeem_script" =>
        LET n == Len(last.args[1].anchoring_keys)
        IN  n >= 1 =>
                /\ last.result = "Ok"
                /\ last.value[1].quorum = (2 * n) \div 3 + 1
                /\ last.value[1].quorum >= 1
                /\ last.value[1].quorum <= n
                /\ Len(last.value[1].keys) = n

\* The redeem script of a configuration with four keys has quorum 3.
C13_Witness ==
    /\ last.op = "redeem_script"
    /\ Len(last.args[1].anchoring_keys) = 4
    /\ last.value[1].quorum = 3

\* C14, as stated: for every configuration the service accepted and every
\* height h, previous_anchoring_height and following_anchoring_height
\* return, previous = h - (h mod interval) and following = previous +
\* interval, so that previous <= h < following and both are multiples of
\* the interval.
C14_AnchoringHeights ==
    last.op \in {"previous_anchoring_height", "following_anchoring_height"} =>
        LET interval == last.args[1].anchoring_interval
            h == last.args[2]
        IN  /\ last.result = "Ok"
            /\ interval >= 1
            /\ LET previous == h - (h % interval)
                   expected == IF last.op = "previous_anchoring_height"
                               THEN previous ELSE previous + interval
               IN  /\ last.value[1] = expected
                   /\ previous <= h
                   /\ h < previous + interval
                   /\ \E m \in 0..expected : expected = m * interval

-----------------------------------------------------------------------------
(* The chain updater task: every validator's host process signs the inputs   *)
(* of the current proposal and sends the SignInput messages to the pool; the *)
(* next block executes what the pool holds.                                  *)

\* The host-chain keys of the validators of the committee in force.
Validators ==
    { Unwrap(actual_config).anchoring_keys[k].service_key :
          k \in 1..Len(Unwrap(actual_config).anchoring_keys) }

\* Configurations of the deployments the task runs in: the funded committee
\* of four, a funded and an unfunded single validator anchoring every second
\* block, and a single validator whose funds do not cover the fee.
ParamsUpdater ==
    { ConfigA,
      Config(KeysB, 2, 1, Some(FundB1)),
      Config(KeysB, 2, 1, None),
      Config(KeysB, 1, 3, Some(FundB1)) }

\* What process() returns for a proposal state with the values reversed.
process_result_swapped(v, proposal) ==
    IF proposal.state = "InsufficientFunds"
    THEN [Result("process", << v >>, "InsufficientFunds") EXCEPT
              !.value = << [balance |-> proposal.total_fee,
                            total_fee |-> proposal.balance] >>]
    ELSE IF proposal.state \in {"NoInitialFunds", "Panic"}
    THEN Result("process", << v >>, proposal.state)
    ELSE Result("process", << v >>, "Ok")

\* What process() returns for a proposal state: the typed errors
\* NoInitialFunds and InsufficientFunds { balance, total_fee }, or success.
process_result(v, proposal) ==
    IF proposal.state = "InsufficientFunds"
    THEN [Result("process", << v >>, "InsufficientFunds") EXCEPT
              !.value = << [balance |-> proposal.balance,
                            total_fee |-> proposal.total_fee] >>]
    ELSE IF proposal.state \in {"NoInitialFunds", "Panic"}
    THEN Result("process", << v >>, proposal.state)
    ELSE Result("process", << v >>, "Ok")

\* The SignInput messages of validator v for the inputs of the proposal that
\* lack its on-chain signature.
missing_signatures(v, proposal) ==
    LET found == find_bitcoin_key(Unwrap(promoted_configs[1]), v)
        tx == proposal.tx
    IN  IF proposal.state # "Available" \/ ~IsSome(found) THEN {}
        ELSE { SignInput(v, tx, i, sign(Unwrap(found)[2], sighash(tx, i))) :
                 i \in { j \in Inputs(tx) :
                           Unwrap(found)[1] \notin DOMAIN
                               input_signatures(transaction_signatures,
                                                id(tx), j) } }

\* AnchoringChainUpdateTask::process of validator v, once between two blocks.
\* The task reads the state the last committed block left.
chain_updater_process(v) ==
    /\ Started
    /\ ~round.executing
    /\ v \in Validators \ round.ran
    /\ LET proposal == anchoring_proposal
       IN  /\ tx_pool' = tx_pool \cup missing_signatures(v, proposal)
           /\ round' = [round EXCEPT !.ran = @ \cup {v}]
           /\ last' = process_result(v, proposal)
    /\ UNCHANGED << schema, admin_ops >>

\* The next block executes a transaction of the pool.
execute(msg) ==
    /\ msg \in tx_pool
    /\ sign_input(msg)
    /\ tx_pool' = tx_pool \ {msg}
    /\ round' = [round EXCEPT !.executing = TRUE]

\* The block that holds the transactions of the pool is committed; the
\* validators' timers start anew for the proposal of the new height.
create_block ==
    /\ tx_pool = {}
    /\ before_commit
    /\ UNCHANGED tx_pool
    /\ round' = [ran |-> {},
                 base |-> Len(anchoring_txs_chain),
                 proposal |-> IF anchoring_proposal'.state = "Available"
                              THEN Some(id(anchoring_proposal'.tx))
                              ELSE None,
                 executing |-> FALSE]

NextUpdater ==
    \/ \E params \in {to_bytes(c) : c \in ParamsUpdater} :
           initialize(params) /\ UNCHANGED offchain
    \/ \E v \in 1..4 : chain_updater_process(v)
    \/ \E msg \in tx_pool : execute(msg)
    \/ create_block
    \/ take_result /\ UNCHANGED offchain

SpecUpdater == Init /\ [][NextUpdater]_vars

\* Every validator has run process() once since the last block on an
\* available proposal, and the block has executed their messages.
RoundDone ==
    /\ IsSome(actual_config)
    /\ IsSome(round.proposal)
    /\ round.ran = Validators
    /\ tx_pool = {}

\* C15: normal progression. When every validator of a funded committee has
\* run the chain updater once on an available proposal and the block has
\* executed the resulting SignInput messages, that proposal is finalized and
\* the chain is exactly one transaction longer than before the round; the
\* transaction at chain index i anchors the block at height i * interval, so
\* no anchoring height is skipped.
C15_NormalProgression ==
    /\ RoundDone =>
           /\ Len(anchoring_txs_chain) = round.base + 1
           /\ id(Last(anchoring_txs_chain)) = Unwrap(round.proposal)
    /\ \A k \in 1..Len(anchoring_txs_chain) :
           /\ PayloadOf(anchoring_txs_chain[k]).block_height
                  = (k - 1) * Unwrap(actual_config).anchoring_interval
           /\ PayloadOf(anchoring_txs_chain[k]).block_hash
                  = anchored_blocks[(k - 1) * Unwrap(actual_config).anchoring_interval + 1]

\* The second round of the committee of four is done: the chain holds two
\* transactions, the second of which anchors the block at the interval.
C15_Witness ==
    /\ RoundDone
    /\ Len(Unwrap(actual_config).anchoring_keys) = 4
    /\ round.base = 1
    /\ Len(anchoring_txs_chain) = 2
    /\ PayloadOf(anchoring_txs_chain[2]).block_height
           = Unwrap(actual_config).anchoring_interval

\* The sum of the values of the inputs of the current proposal, and the fee
\* of the transaction that would spend them.
StatedBalance == SumSeq(input_values(proposal_inputs))

StatedTotalFee ==
    Unwrap(promoted_configs[1]).transaction_fee * vsize(proposal_inputs)

\* C16: a run of the chain updater on a proposal in state NoInitialFunds
\* returns the error NoInitialFunds; on a proposal whose inputs sum to less
\* than the total fee it returns InsufficientFunds with exactly that balance
\* and that total fee; on state None it returns success. In all three cases
\* the run adds no SignInput message to the pool and leaves the on-chain
\* state as it was.
C16_UpdaterWithoutProposal ==
    [][ (last'.op = "process"
         /\ anchoring_proposal.state
                \in {"NoInitialFunds", "InsufficientFunds", "None"}) =>
        /\ tx_pool' = tx_pool
        /\ UNCHANGED schema
        /\ anchoring_proposal.state = "NoInitialFunds" =>
               /\ anchoring_txs_chain = << >>
               /\ ~IsSome(unspent_funding_transaction)
               /\ last'.result = "NoInitialFunds"
               /\ last'.value = << >>
        /\ anchoring_proposal.state = "InsufficientFunds" =>
               /\ StatedBalance < StatedTotalFee
               /\ last'.result = "InsufficientFunds"
               /\ last'.value = << [balance |-> StatedBalance,
                                    total_fee |-> StatedTotalFee] >>
        /\ anchoring_proposal.state = "None" =>
               /\ last'.result = "Ok"
               /\ last'.value = << >>
      ]_vars

\* The run of a single validator whose funding transaction of value 2 does
\* not cover the fee of 3 has returned InsufficientFunds.
C16_Witness ==
    /\ Returned("process", "InsufficientFunds")
    /\ last.value = << [balance |-> 2, total_fee |-> 3] >>
    /\ anchoring_txs_chain = << >>
    /\ tx_pool = {}

-----------------------------------------------------------------------------
(* The Bitcoin sync task and the relay it talks to. The relay's answers are *)
(* inputs of a run: the chain indices whose transactions it reports as      *)
(* confirmed, and whether it reports the funding transaction as confirmed.  *)
(* A run records the requests it made to the relay, in order.               *)

TransactionConfirmations(txid) ==
    [kind |-> "transaction_confirmations", request |-> txid]

SendTransaction(tx) == [kind |-> "send_transaction", request |-> tx]

\* The outcome of a run: its result, the index it returns, the transaction
\* id an error carries, and the requests the relay received.
SyncOutcome(result, returned, hash, requests) ==
    [result |-> result, returned |-> returned, hash |-> hash,
     requests |-> requests]

\* Chain indices count from 0, as in the service.
tx_at(chain, index) == chain[index + 1]

confirmation_requests_ascending(chain, hi, lo) ==
    [n \in 1..(hi - lo + 1) |->
         TransactionConfirmations(id(tx_at(chain, lo + n - 1)))]

\* The confirmation requests for the transactions at hi, hi - 1, ..., lo.
confirmation_requests(chain, hi, lo) ==
    [n \in 1..(hi - lo + 1) |->
         TransactionConfirmations(id(tx_at(chain, hi - n + 1)))]

Max(S) == CHOOSE x \in S : \A y \in S : y <= x

sync_without_transactions_returns_index ==
    SyncOutcome("Ok", Some(0), None, << >>)

\* No anchoring transaction exists: nothing to do, the relay is not asked.
sync_without_transactions == SyncOutcome("Ok", None, None, << >>)

walk_start_from_zero(latest_committed_tx_index) == 0

\* The lowest index the walk visits.
walk_start(latest_committed_tx_index) ==
    IF IsSome(latest_committed_tx_index)
    THEN Unwrap(latest_committed_tx_index)
    ELSE 0

successor_same(c) == c

\* The transaction that follows the highest confirmed one.
successor(c) == c + 1

check_funding_ignored(chain, funding, requests) ==
    SyncOutcome("Ok", Some(0), None,
        requests \o << TransactionConfirmations(prev_tx_id(tx_at(chain, 0))),
                       SendTransaction(tx_at(chain, 0)) >>)

\* No anchoring transaction is confirmed and the walk has reached the first
\* one: the funding transaction it spends must be confirmed.
check_funding(chain, funding, requests) ==
    LET hash == prev_tx_id(tx_at(chain, 0))
        asked == Append(requests, TransactionConfirmations(hash))
    IN  IF funding
        THEN SyncOutcome("Ok", Some(0), None,
                         Append(asked, SendTransaction(tx_at(chain, 0))))
        ELSE SyncOutcome("UnconfirmedFundingTransaction", None, Some(hash),
                         asked)

\* The walk over a non-empty chain, from its last transaction down to the
\* start, stopping at the first confirmed one.
sync_with_bitcoin(chain, start, confirmed, funding) ==
    LET last_index == Len(chain) - 1
        found == { c \in start..last_index : c \in confirmed }
    IN  IF found # {}
        THEN LET c == Max(found)
                 asked == confirmation_requests(chain, last_index, c)
             IN  IF successor(c) <= last_index
                 THEN SyncOutcome("Ok", Some(c), None,
                          Append(asked,
                                 SendTransaction(tx_at(chain, successor(c)))))
                 ELSE SyncOutcome("Ok", Some(c), None, asked)
        ELSE LET asked == confirmation_requests(chain, last_index, start)
             IN  IF start = 0
                 THEN check_funding(chain, funding, asked)
                 ELSE SyncOutcome("Ok", Some(start), None,
                          Append(asked,
                                 SendTransaction(tx_at(chain, start))))

\* SyncWithBitcoinTask::process
sync_process(latest_committed_tx_index, confirmed, funding) ==
    /\ Started
    /\ ~round.executing
    /\ LET chain == anchoring_txs_chain
           outcome ==
               IF chain = << >> THEN sync_without_transactions
               ELSE sync_with_bitcoin(chain,
                        walk_start(latest_committed_tx_index),
                        confirmed, funding)
       IN  last' = [op |-> "sync",
                    args |-> << latest_committed_tx_index, confirmed, funding >>,
                    result |-> outcome.result,
                    value |-> << outcome >>]
    /\ UNCHANGED << schema, admin_ops, offchain >>

\* The indices of the chain, and the arguments a caller may pass.
ChainIndices == 0..(Len(anchoring_txs_chain) - 1)

NextSync ==
    \/ \E params \in {to_bytes(c) : c \in ParamsUpdater} :
           initialize(params) /\ UNCHANGED offchain
    \/ \E v \in 1..4 : chain_updater_process(v)
    \/ \E msg \in tx_pool : execute(msg)
    \/ create_block
    \/ \E latest \in {None} \cup { Some(k) : k \in ChainIndices },
          confirmed \in SUBSET ChainIndices,
          funding \in BOOLEAN :
           sync_process(latest, confirmed, funding)
    \/ take_result /\ UNCHANGED offchain

SpecSync == Init /\ [][NextSync]_vars

\* What a finished run of the sync task left: its arguments and its outcome.
SyncRan == last.op = "sync"

SyncOf == last.value[1]

Sent == { n \in 1..Len(SyncOf.requests) :
            SyncOf.requests[n].kind = "send_transaction" }

\* C17: on an empty anchoring chain the sync task returns Ok(None) and makes
\* no request to the relay, neither transaction_confirmations nor
\* send_transaction.
C17_SyncEmptyChain ==
    (SyncRan /\ anchoring_txs_chain = << >>) =>
        /\ last.result = "Ok"
        /\ SyncOf.returned = None
        /\ SyncOf.requests = << >>

C17_Witness ==
    /\ SyncRan
    /\ anchoring_txs_chain = << >>
    /\ IsSome(unspent_funding_transaction)
    /\ Len(anchored_blocks) >= 1

\* The relay reported no anchoring transaction as confirmed.
NothingConfirmed == last.args[2] \cap ChainIndices = {}

\* C18: process(None) on a non-empty chain, when the relay reports no
\* anchoring transaction as confirmed and reports the transaction spent by
\* the first anchoring transaction as unconfirmed, fails with
\* UnconfirmedFundingTransaction carrying the prev_tx_id of chain[0], and no
\* send_transaction request is made.
C18_UnconfirmedFunding ==
    (/\ SyncRan
     /\ anchoring_txs_chain # << >>
     /\ last.args[1] = None
     /\ NothingConfirmed
     /\ ~last.args[3]) =>
        /\ last.result = "UnconfirmedFundingTransaction"
        /\ SyncOf.hash = Some(prev_tx_id(anchoring_txs_chain[1]))
        /\ Sent = {}

\* The run of the test: one anchoring transaction, asked about and reported
\* unconfirmed, then its funding transaction, reported unconfirmed.
C18_Witness ==
    /\ SyncRan
    /\ Len(anchoring_txs_chain) = 1
    /\ last.args = << None, {}, FALSE >>
    /\ last.result = "UnconfirmedFundingTransaction"
    /\ SyncOf.requests
           = << TransactionConfirmations(id(anchoring_txs_chain[1])),
                TransactionConfirmations(prev_tx_id(anchoring_txs_chain[1])) >>

\* The run has sent exactly the transaction at the index, as its last request.
Broadcast(index) ==
    /\ index \in ChainIndices
    /\ Sent = {Len(SyncOf.requests)}
    /\ Last(SyncOf.requests)
           = SendTransaction(tx_at(anchoring_txs_chain, index))

\* The indices the relay reported as confirmed, in the whole chain and among
\* the transactions at or after the index passed to the run.
ConfirmedIndices == last.args[2] \cap ChainIndices

ConfirmedInWalk ==
    { c \in ConfirmedIndices :
          c >= (IF IsSome(last.args[1]) THEN Unwrap(last.args[1]) ELSE 0) }

ReturnsIndexOfBroadcast ==
    /\ Cardinality(Sent) = 1
    /\ IsSome(SyncOf.returned)
    /\ Broadcast(Unwrap(SyncOf.returned))
    /\ (last.args[1] = None /\ NothingConfirmed /\ last.args[3]) =>
           SyncOf.returned = Some(0)
    /\ (IsSome(last.args[1])
        /\ (\E n \in 1..Len(SyncOf.requests) :
               SyncOf.requests[n]
                   = TransactionConfirmations(
                         id(tx_at(anchoring_txs_chain,
                                  Unwrap(last.args[1])))))
        /\ Unwrap(last.args[1]) \notin ConfirmedIndices) =>
           SyncOf.returned = last.args[1]

\* C20 as stated: every successful run of the sync task on a non-empty chain
\* makes exactly one send_transaction request and returns the chain index of
\* the transaction it sent.
C20_EverySuccessfulSyncBroadcasts ==
    (SyncRan /\ anchoring_txs_chain # << >> /\ last.result = "Ok") =>
        ReturnsIndexOfBroadcast

\* C20, amended: no run makes more than one send_transaction request, and
\* every successful run on a non-empty chain in which the relay reports none
\* of the transactions it is asked about as confirmed makes exactly one and
\* returns the chain index of the transaction it sent.
C20_SyncWithoutConfirmedBroadcasts ==
    /\ SyncRan => Cardinality(Sent) <= 1
    /\ (SyncRan /\ anchoring_txs_chain # << >> /\ last.result = "Ok"
        /\ ConfirmedInWalk = {}) =>
           ReturnsIndexOfBroadcast

\* The second run of the test: process(Some(1)) on a chain of two, the relay
\* reports the second transaction as unconfirmed and receives it.
C20_Witness ==
    /\ SyncRan
    /\ Len(anchoring_txs_chain) = 2
    /\ last.args[1] = Some(1)
    /\ last.args[2] = {}
    /\ SyncOf.returned = Some(1)
    /\ SyncOf.requests
           = << TransactionConfirmations(id(anchoring_txs_chain[2])),
                SendTransaction(anchoring_txs_chain[2]) >>

-----------------------------------------------------------------------------
(* Chain updater tasks running concurrently, with retries: a task that took  *)
(* its snapshot when the round began may send its SignInput messages again   *)
(* at any time, whether or not its signature is recorded or the proposal is  *)
(* finalized meanwhile.                                                      *)

\* The SignInput messages of validator v for every input of a transaction.
signatures_of(v, tx) ==
    LET found == find_bitcoin_key(Unwrap(actual_config), v)
    IN  { SignInput(v, tx, i, sign(Unwrap(found)[2], sighash(tx, i))) :
            i \in Inputs(tx) }

\* Validator v's task sends the messages for the proposal of the round again.
retry(v) ==
    /\ Started
    /\ v \in Validators
    /\ IsSome(round.proposal)
    /\ signatures_of(v, Unwrap(round.proposal)) \ tx_pool # {}
    /\ tx_pool' = tx_pool \cup signatures_of(v, Unwrap(round.proposal))
    /\ UNCHANGED << schema, last, admin_ops, round >>

NextConcurrent ==
    \/ \E params \in {to_bytes(c) : c \in ParamsUpdater} :
           initialize(params) /\ UNCHANGED offchain
    \/ \E v \in 1..4 : chain_updater_process(v)
    \/ \E v \in 1..4 : retry(v)
    \/ \E msg \in tx_pool : execute(msg)
    \/ create_block
    \/ take_result /\ UNCHANGED offchain

SpecConcurrent == Init /\ [][NextConcurrent]_vars

\* The validators (by index) whose signature of an input is recorded.
Recorded(txid, input) ==
    IF << txid, input >> \in DOMAIN transaction_signatures
    THEN DOMAIN transaction_signatures[<< txid, input >>]
    ELSE {}

\* The signatures a serial run of the validators S leaves for an input, and
\* the witness built from them.
SerialSignatures(cfg, S, tx, input) ==
    [n \in S |-> sign(cfg.anchoring_keys[n + 1].bitcoin_key,
                      sighash(tx, input))]

\* The on-chain state equals the one the validators S leave when they run one
\* after the other on the proposal of the round, each run followed by the
\* commit of its messages: their signatures are recorded, the proposal is
\* behind the chain of the round's start, once, with their witness.
SameAsSerialRun(S) ==
    LET cfg == Unwrap(actual_config)
        tx == Last(anchoring_txs_chain)
    IN  /\ Len(anchoring_txs_chain) = round.base + 1
        /\ id(tx) = Unwrap(round.proposal)
        /\ Cardinality(S) = StatedQuorum(cfg)
        /\ \A i \in Inputs(tx) :
               input_signatures(transaction_signatures, id(tx), i)
                   = SerialSignatures(cfg, S, tx, i)
        /\ LET order == FirstAscending(S, Cardinality(S))
           IN  tx.witness
                   = [i \in 1..Len(tx.ins) |->
                         [j \in 1..Len(order) |->
                             SerialSignatures(cfg, S, tx, i - 1)[order[j]]]]

-----------------------------------------------------------------------------
(* The height a proposal anchors.                                           *)

\* The height of the latest host block whose hash the service keeps.
current_height == Len(anchored_blocks) - 1

\* The configuration the builder works under.
BuilderConfig == Unwrap(promoted_configs[1])

ProposalHeight == PayloadOf(anchoring_proposal.tx).block_height

\* C22 as stated: the payload block_height of an Available proposal is
\* floor(H / anchoring_interval) * anchoring_interval, H the current height
\* of the host chain.
C22_ProposalAnchorsFloorOfHeight ==
    (IsSome(actual_config) /\ anchoring_proposal.state = "Available") =>
        ProposalHeight
            = (current_height \div BuilderConfig.anchoring_interval)
                  * BuilderConfig.anchoring_interval

\* C22, amended: the payload block_height of an Available proposal is 0 when
\* the chain is empty, and otherwise the first multiple of anchoring_interval
\* above the height the last transaction of the chain anchors; the host
\* chain has a block at that height, whose hash is the payload's block_hash,
\* so the height is at most floor(H / anchoring_interval) * anchoring_interval
\* and is below it while anchoring lags behind the host chain.
C22_ProposalAnchorsNextHeight ==
    (IsSome(actual_config) /\ anchoring_proposal.state = "Available") =>
        LET interval == BuilderConfig.anchoring_interval
            payload == PayloadOf(anchoring_proposal.tx)
            latest == PayloadOf(Last(anchoring_txs_chain)).block_height
        IN  /\ payload.block_height =
                   IF anchoring_txs_chain = << >> THEN 0
                   ELSE latest - (latest % interval) + interval
            /\ payload.block_height <= current_height
            /\ payload.block_hash = anchored_blocks[payload.block_height + 1]
            /\ payload.block_height
                   <= (current_height \div interval) * interval

\* The host chain is at height 2 and the chain is empty: the proposal anchors
\* height 0, not 2.
C22_Witness ==
    /\ IsSome(actual_config)
    /\ anchoring_proposal.state = "Available"
    /\ anchoring_txs_chain = << >>
    /\ current_height = 2
    /\ BuilderConfig.anchoring_interval = 1
    /\ ProposalHeight = 0

-----------------------------------------------------------------------------
(* The transactions the sync task asks the relay about.                     *)

\* The transaction_confirmations requests of the run, in order.
ConfirmationsAsked ==
    SelectSeq(SyncOf.requests,
              LAMBDA r : r.kind = "transaction_confirmations")

\* The run asked about the anchoring transactions at the indices len - 1,
\* len - 2, ... in this order, not below lo, and stopped at the first one
\* reported confirmed; the only other transaction it may have asked about is
\* the one the first anchoring transaction spends, after index 0 was
\* reported unconfirmed.
WalkedDownTo(lo) ==
    LET len == Len(anchoring_txs_chain)
        asked == ConfirmationsAsked
    IN  \E m \in 1..(len - lo) :
            /\ Len(asked) >= m
            /\ \A n \in 1..m :
                   asked[n] = TransactionConfirmations(
                                  id(tx_at(anchoring_txs_chain, len - n)))
            /\ \A n \in 1..(m - 1) : (len - n) \notin ConfirmedIndices
            /\ (len - m) \in ConfirmedIndices \/ len - m = lo
            /\ \/ Len(asked) = m
               \/ /\ Len(asked) = m + 1
                  /\ len - m = 0
                  /\ 0 \notin ConfirmedIndices
                  /\ asked[m + 1] = TransactionConfirmations(
                                        prev_tx_id(anchoring_txs_chain[1]))

\* C23 as stated: process(last_known_confirmed) asks only about the anchoring
\* transactions at the indices from tx_chain.len() - 1 down to
\* last_known_confirmed + 1 (0 for None), in descending order, stops at the
\* first one reported confirmed and never asks about an index at or below
\* last_known_confirmed.
C23_WalksAboveLastKnown ==
    (SyncRan /\ anchoring_txs_chain # << >>) =>
        IF last.args[1] = None THEN WalkedDownTo(0)
        ELSE IF Unwrap(last.args[1]) + 1 \in ChainIndices
        THEN WalkedDownTo(Unwrap(last.args[1]) + 1)
        ELSE \A n \in 1..Len(ConfirmationsAsked) :
                 ConfirmationsAsked[n].request \notin ChainIds

\* C23, amended: process(last_known_confirmed) asks only about the anchoring
\* transactions at the indices from tx_chain.len() - 1 down to
\* last_known_confirmed itself (0 for None), in descending order, and stops
\* at the first one reported confirmed; it never asks about an index below
\* last_known_confirmed.
C23_WalksDownToLastKnown ==
    (SyncRan /\ anchoring_txs_chain # << >>) =>
        WalkedDownTo(IF last.args[1] = None THEN 0
                     ELSE Unwrap(last.args[1]))

\* process(Some(1)) on a chain of two, as in the test: the run has asked
\* about the transaction at index 1 only, although the relay would have
\* reported the one at index 0 as confirmed.
C23_Witness ==
    /\ SyncRan
    /\ Len(anchoring_txs_chain) = 2
    /\ last.args[1] = Some(1)
    /\ last.args[2] = {0}
    /\ ConfirmationsAsked
           = << TransactionConfirmations(id(anchoring_txs_chain[2])) >>

-----------------------------------------------------------------------------
(* Committee transition.                                                    *)

\* A change of the anchoring address is pending and the last transaction of
\* the chain still pays the address of the actual configuration.
TransitionPending ==
    /\ IsSome(actual_config)
    /\ IsSome(following_config)
    /\ anchoring_txs_chain # << >>
    /\ StatedAddress(Unwrap(following_config))
           # StatedAddress(Unwrap(actual_config))
    /\ Last(anchoring_txs_chain).outs[1].script
           = StatedScript(Unwrap(actual_config))

\* While the transition is pending, an Available proposal spends the last
\* transaction, which the old committee's script locks, and pays its output
\* 0 to the script of the following configuration.
TransitionProposal ==
    (TransitionPending /\ anchoring_proposal.state = "Available") =>
        /\ anchoring_proposal.tx.ins[1]
               = OutPoint(id(Last(anchoring_txs_chain)), 0)
        /\ anchoring_proposal.tx.outs[1].script
               = StatedScript(Unwrap(following_config))

\* C24: the anchoring address of actual_config changes only by promotion of
\* following_config, and only when the last transaction of the chain already
\* pays its output 0 to the address of following_config. Until then, with
\* following_config set and the last transaction still paying the old
\* address, the next proposal is built under the old committee's keys (only
\* its validators' SignInput messages are recorded) and pays its output 0 to
\* the new address.
C24_CommitteeTransition ==
    [][/\ (/\ IsSome(actual_config)
           /\ StatedAddress(Unwrap(actual_config'))
                  # StatedAddress(Unwrap(actual_config))) =>
              /\ IsSome(following_config)
              /\ actual_config' = following_config
              /\ following_config' = None
              /\ anchoring_txs_chain # << >>
              /\ Last(anchoring_txs_chain).outs[1].script
                     = StatedScript(Unwrap(following_config))
       /\ TransitionProposal
       /\ TransitionProposal'
       /\ (/\ TransitionPending
           /\ IsIdle
           /\ last'.op = "sign_input"
           /\ last'.result = "Ok") =>
              /\ Member(Unwrap(actual_config), last'.args[1].author)
              /\ actual_config' = actual_config
      ]_vars

\* The single validator has anchored once, the supervisor has applied the
\* configuration of the committee of two, and the proposal that pays the new
\* address is available.
C24_Witness ==
    /\ TransitionPending
    /\ anchoring_proposal.state = "Available"
    /\ Len(Unwrap(actual_config).anchoring_keys) = 1
    /\ Len(Unwrap(following_config).anchoring_keys) = 2
    /\ anchoring_proposal.tx.outs[1].script
           = StatedScript(Unwrap(following_config))

-----------------------------------------------------------------------------
(* A second change of the committee while one is pending.                   *)

\* The configuration the service was started with, and the one the
\* supervisor applied afterwards: its address differs, so it is pending in
\* following_config.
ConfigStarted == Config(KeysB, 1, 1, Some(FundB1))

ConfigPending == Config(KeysC, 1, 1, None)

\* The state after initialize(ConfigStarted) and
\* apply_config(Supervisor, ConfigPending), both taken by the runtime.
InitPending ==
    /\ actual_config = Some(ConfigStarted)
    /\ following_config = Some(ConfigPending)
    /\ anchoring_txs_chain = << >>
    /\ transaction_signatures = << >>
    /\ unspent_funding_transaction = ConfigStarted.funding_transaction
    /\ spent_funding_transactions = {}
    /\ anchored_blocks = << >>
    /\ block_hashes = << BlockHash(0) >>
    /\ last = Idle
    /\ admin_ops = 0
    /\ tx_pool = {}
    /\ round = [ran |-> {}, base |-> 0, proposal |-> None, executing |-> FALSE]

\* The supervisor applies configurations while ConfigPending is pending; one
\* is of the other validator alone (quorum 1).
NextPending ==
    \/ before_commit /\ UNCHANGED offchain
    \/ \E caller \in Callers,
          params \in { ConfigStarted,
                       ConfigPending,
                       Config(KeysC, 2, 1, None),
                       Config(<< AnchoringKeys(11, 1) >>, 1, 1, None),
                       Config(KeysNone, 1, 1, None) } :
           apply_config(caller, params) /\ UNCHANGED offchain
    \/ \E msg \in SignInputMsgs : sign_input(msg) /\ UNCHANGED offchain
    \/ take_result /\ UNCHANGED offchain

SpecPending == InitPending /\ [][NextPending]_vars

\* C25: at most one change of the committee address is pending: when
\* following_config is already set, an apply_config whose params have an
\* anchoring address different from that of actual_config is not accepted,
\* and following_config keeps the value it had before the call.
C25_SecondChangeNotAccepted ==
    [][(/\ IsIdle
        /\ last'.op = "apply_config"
        /\ IsSome(following_config)
        /\ last'.args[2].anchoring_keys # << >>
        /\ StatedAddress(last'.args[2])
               # StatedAddress(Unwrap(actual_config))) =>
           /\ last'.result # "Ok"
           /\ following_config' = following_config
      ]_vars

-----------------------------------------------------------------------------
(* The list of anchored blocks.                                             *)

\* anchored_blocks holds, at every index k, the hash of host block k.
AnchoredBlocksAreHostBlocks ==
    /\ Len(anchored_blocks) < Len(block_hashes)
    /\ \A k \in 0..(Len(anchored_blocks) - 1) :
           /\ anchored_blocks[k + 1] = block_hashes[k + 1]
           /\ anchored_blocks[k + 1] = BlockHash(k)

\* C26: before_commit appends exactly one hash, the hash of the latest
\* committed host block, to anchored_blocks and changes no other index of
\* the service; anchored_blocks is append-only (no other step changes it and
\* before_commit keeps the entries it has), and in every state
\* anchored_blocks[k] is the hash of host block k for every k below its
\* length.
C26_AnchoredBlocks ==
    [][/\ (IsIdle /\ last'.op = "before_commit") =>
              /\ anchored_blocks'
                     = Append(anchored_blocks,
                              block_hashes[Len(block_hashes)])
              /\ UNCHANGED << actual_config, following_config,
                              anchoring_txs_chain, transaction_signatures,
                              unspent_funding_transaction,
                              spent_funding_transactions >>
       /\ anchored_blocks' # anchored_blocks =>
              /\ IsIdle
              /\ last'.op = "before_commit"
              /\ SubSeq(anchored_blocks', 1, Len(anchored_blocks))
                     = anchored_blocks
       /\ AnchoredBlocksAreHostBlocks
       /\ AnchoredBlocksAreHostBlocks'
      ]_vars

\* before_commit has run for the second block, after a transaction of the
\* chain was finalized: the list holds the hashes of blocks 0 and 1.
C26_Witness ==
    /\ Returned("before_commit", "Ok")
    /\ anchoring_txs_chain # << >>
    /\ anchored_blocks = << BlockHash(0), BlockHash(1) >>
    /\ Len(block_hashes) = 3

-----------------------------------------------------------------------------
(* proto/binary_map.rs                                                      *)

\* The longest sequence of insertions that builds a map, and the largest
\* number of entries of a serialized map handed to from_bytes.
MaxInsertions == 2

MaxRawEntries == 2

\* Keys and values of a map. Ord of the keys is the order of the integers.
MapKeys == {1, 2, 3}

MapValues == {7, 8}

\* BinaryValue of the key type K: any encoding of the keys that from_bytes
\* inverts. The type is a parameter of BinaryMap, so every injective
\* encoding is one; some preserve the order of the keys, others (a
\* little-endian integer, say) do not. The value type V is one byte.
KeyBytes == { << 0, 1 >>, << 1, 0 >>, << 1, 1 >> }

KeyEncodings ==
    { enc \in [MapKeys -> KeyBytes] :
        \A a, b \in MapKeys : enc[a] = enc[b] => a = b }

\* BTreeMap: the entries in the order of their keys. insert replaces the
\* value of a key the map has and puts a new key at its place in the order.
btree_insert_at_end(m, pair) ==
    IF \E i \in 1..Len(m) : m[i].key = pair.key
    THEN [i \in 1..Len(m) |-> IF m[i].key = pair.key THEN pair ELSE m[i]]
    ELSE Append(m, pair)

btree_insert(m, pair) ==
    IF \E i \in 1..Len(m) : m[i].key = pair.key
    THEN [i \in 1..Len(m) |-> IF m[i].key = pair.key THEN pair ELSE m[i]]
    ELSE LET n == Cardinality({i \in 1..Len(m) : m[i].key < pair.key})
         IN  SubSeq(m, 1, n) \o << pair >> \o SubSeq(m, n + 1, Len(m))

\* FromIterator for BTreeMap: the pairs are inserted one after the other.
RECURSIVE btree_collect(_)
btree_collect(pairs) ==
    IF pairs = << >>
    THEN << >>
    ELSE btree_insert(btree_collect(SubSeq(pairs, 1, Len(pairs) - 1)),
                      Last(pairs))

KeyValue(key, value) == [key |-> key, value |-> value]

\* K::to_bytes is the encoding of the key, V::to_bytes the byte of the value.
pair_to_key_value_pb(enc, pair) ==
    KeyValue(enc[pair.key], << pair.value >>)

\* None stands for the error of the conversion.
key_value_pb_to_pair(enc, pb) ==
    LET key_from_bytes(bytes) ==
            IF \E k \in MapKeys : enc[k] = bytes
            THEN Some(CHOOSE k \in MapKeys : enc[k] = bytes)
            ELSE None
        value_from_bytes(bytes) ==
            IF Len(bytes) = 1 /\ bytes[1] \in MapValues
            THEN Some(bytes[1])
            ELSE None
        key == key_from_bytes(pb.key)
        value == value_from_bytes(pb.value)
    IN  IF key = None THEN None
        ELSE IF value = None THEN None
        ELSE Some(KeyValue(Unwrap(key), Unwrap(value)))

\* ProtobufConvert::to_pb of BinaryMap: the entries as the map iterates them.
to_pb(enc, m) == [i \in 1..Len(m) |-> pair_to_key_value_pb(enc, m[i])]

\* ProtobufConvert::from_pb of BinaryMap: the first entry that fails to
\* convert makes the whole conversion fail.
from_pb(enc, inner) ==
    LET pairs == [i \in 1..Len(inner) |-> key_value_pb_to_pair(enc, inner[i])]
    IN  IF \E i \in 1..Len(inner) : pairs[i] = None
        THEN None
        ELSE Some(btree_collect([i \in 1..Len(inner) |-> Unwrap(pairs[i])]))

\* The serialized message: every entry is framed by its length, and inside
\* it the key and the value are framed by theirs.
RECURSIVE write_to_bytes(_)
write_to_bytes(inner) ==
    IF inner = << >>
    THEN << >>
    ELSE LET pb == inner[1]
             key_value_bytes ==
                 << Len(pb.key) >> \o pb.key
                     \o << Len(pb.value) >> \o pb.value
         IN  << Len(key_value_bytes) >> \o key_value_bytes
                 \o write_to_bytes(Tail(inner))

RECURSIVE merge_from_bytes(_)
merge_from_bytes(bytes) ==
    IF bytes = << >>
    THEN Some(<< >>)
    ELSE LET n == bytes[1]
             parse_key_value(entry) ==
                 IF Len(entry) < 1 THEN None
                 ELSE LET klen == entry[1]
                      IN  IF Len(entry) < klen + 2 THEN None
                          ELSE LET vlen == entry[klen + 2]
                               IN  IF Len(entry) # klen + vlen + 2 THEN None
                                   ELSE Some(KeyValue(
                                            SubSeq(entry, 2, klen + 1),
                                            SubSeq(entry, klen + 3,
                                                   klen + vlen + 2)))
         IN  IF Len(bytes) < n + 1 THEN None
             ELSE LET pb == parse_key_value(SubSeq(bytes, 2, n + 1))
                      rest == merge_from_bytes(SubSeq(bytes, n + 2,
                                                      Len(bytes)))
                  IN  IF pb = None \/ rest = None THEN None
                      ELSE Some(<< Unwrap(pb) >> \o Unwrap(rest))

\* BinaryValue::to_bytes of BinaryMap
binary_map_to_bytes(enc, m) == write_to_bytes(to_pb(enc, m))

\* BinaryValue::from_bytes of BinaryMap
binary_map_from_bytes(enc, bytes) ==
    LET pb == merge_from_bytes(bytes)
    IN  IF pb = None THEN None ELSE from_pb(enc, Unwrap(pb))

\* ObjectHash::object_hash of BinaryMap: exonum::crypto::hash of the bytes;
\* different bytes have different hashes.
binary_map_object_hash(enc, m) == [sha256 |-> binary_map_to_bytes(enc, m)]

\* Insertions that build a map.
Insertions ==
    UNION { [1..n -> [key : MapKeys, value : MapValues]] :
              n \in 0..MaxInsertions }

\* Entries of a serialized map: the bytes of keys and values, and bytes
\* that are neither.
RawInner ==
    UNION { [1..n -> [key : KeyBytes \cup { << 2, 2 >> },
                      value : { << 7 >>, << 8 >>, << 9 >> }]] :
              n \in 0..MaxRawEntries }

\* A map is built by the insertions, serialized and hashed, and its bytes
\* are read back.
call_binary_map_to_bytes(enc, insertions) ==
    /\ IsIdle
    /\ LET m == btree_collect(insertions)
       IN  last' = Value("binary_map_to_bytes", << enc, insertions >>,
                         [map |-> m,
                          inner |-> to_pb(enc, m),
                          bytes |-> binary_map_to_bytes(enc, m),
                          object_hash |-> binary_map_object_hash(enc, m),
                          read |-> binary_map_from_bytes(
                                       enc, binary_map_to_bytes(enc, m))])
    /\ UNCHANGED << schema, admin_ops >>

\* The bytes of a serialized map, whole or without their last byte, are
\* read.
call_binary_map_from_bytes(enc, inner, cut) ==
    /\ IsIdle
    /\ cut => inner # << >>
    /\ LET whole == write_to_bytes(inner)
           bytes == IF cut THEN SubSeq(whole, 1, Len(whole) - 1) ELSE whole
           m == binary_map_from_bytes(enc, bytes)
       IN  last' = IF m = None
                   THEN Result("binary_map_from_bytes",
                               << enc, inner, cut >>, "Err")
                   ELSE Value("binary_map_from_bytes",
                              << enc, inner, cut >>, Unwrap(m))
    /\ UNCHANGED << schema, admin_ops >>

NextBinaryMap ==
    \/ /\ IsIdle
       /\ \E enc \in KeyEncodings, insertions \in Insertions :
              call_binary_map_to_bytes(enc, insertions) /\ UNCHANGED offchain
    \/ /\ IsIdle
       /\ \E enc \in KeyEncodings, inner \in RawInner, cut \in BOOLEAN :
              call_binary_map_from_bytes(enc, inner, cut)
                  /\ UNCHANGED offchain

SpecBinaryMap == Init /\ [][NextBinaryMap]_vars

\* Lexicographic order of byte strings.
RECURSIVE BytesLess(_, _)
BytesLess(a, b) ==
    IF b = << >> THEN FALSE
    ELSE IF a = << >> THEN TRUE
    ELSE IF a[1] # b[1] THEN a[1] < b[1]
    ELSE BytesLess(Tail(a), Tail(b))

\* The entries a sequence of insertions leaves: for every key the pair that
\* was inserted last.
FinalEntries(pairs) ==
    { pairs[i] : i \in { j \in 1..Len(pairs) :
                           \A l \in (j + 1)..Len(pairs) :
                               pairs[l].key # pairs[j].key } }

EntriesOf(m) == { m[i] : i \in 1..Len(m) }

\* What the codec does apart from the order of the entries:
\* from_bytes(to_bytes(m)) succeeds and equals m, and m holds the entries
\* that were inserted; maps with the same entries have the same bytes and
\* the same object_hash, whatever the order of the insertions; an entry
\* whose key or value does not decode, or bytes that end early, make
\* from_bytes fail, and otherwise it returns the map of the entries.
CodecContract ==
    /\ Returned("binary_map_to_bytes", "Ok") =>
           LET enc == last.args[1]
               out == Unwrap(last.value)
           IN  /\ EntriesOf(out.map) = FinalEntries(last.args[2])
               /\ out.read = Some(out.map)
               /\ \A other \in Insertions :
                      FinalEntries(other) = FinalEntries(last.args[2]) =>
                          /\ binary_map_to_bytes(enc, btree_collect(other))
                                 = out.bytes
                          /\ binary_map_object_hash(enc, btree_collect(other))
                                 = out.object_hash
    /\ last.op = "binary_map_from_bytes" =>
           LET enc == last.args[1]
               inner == last.args[2]
               cut == last.args[3]
               Decodes(pb) == /\ \E k \in MapKeys : enc[k] = pb.key
                              /\ pb.value \in { << v >> : v \in MapValues }
           IN  IF cut \/ \E i \in 1..Len(inner) : ~Decodes(inner[i])
               THEN last.result = "Err"
               ELSE /\ last.result = "Ok"
                    /\ EntriesOf(to_pb(enc, Unwrap(last.value)))
                           = FinalEntries(inner)

\* C27 as stated: from_bytes(to_bytes(m)) succeeds and equals m; to_bytes
\* emits the entries in ascending order of the byte encoding of their keys;
\* maps with the same entries have the same bytes and the same object_hash
\* whatever the order of insertion; an entry that fails to decode makes
\* from_bytes return an error.
C27_EntriesAscendByKeyBytes ==
    /\ CodecContract
    /\ Returned("binary_map_to_bytes", "Ok") =>
           LET inner == Unwrap(last.value).inner
           IN  \A i, j \in 1..Len(inner) :
                   i < j => BytesLess(inner[i].key, inner[j].key)

\* C27, amended: from_bytes(to_bytes(m)) succeeds and equals m; to_bytes
\* emits the entries in ascending order of their keys (Ord of the key type);
\* maps with the same entries have the same bytes and the same object_hash
\* whatever the order of insertion; an entry that fails to decode makes
\* from_bytes return an error.
C27_EntriesAscendByKey ==
    /\ CodecContract
    /\ Returned("binary_map_to_bytes", "Ok") =>
           LET enc == last.args[1]
               m == Unwrap(last.value).map
               inner == Unwrap(last.value).inner
           IN  /\ Len(inner) = Len(m)
               /\ \A i \in 1..Len(m) :
                      /\ inner[i].key = enc[m[i].key]
                      /\ inner[i].value = << m[i].value >>
               /\ \A i, j \in 1..Len(m) : i < j => m[i].key < m[j].key

\* Two keys were inserted in descending order under an encoding that
\* reverses their order; the map was written and read back.
C27_Witness ==
    /\ Returned("binary_map_to_bytes", "Ok")
    /\ Len(last.args[2]) = 2
    /\ last.args[2][1].key = 3
    /\ last.args[2][2].key = 1
    /\ BytesLess(last.args[1][3], last.args[1][1])
    /\ Len(Unwrap(last.value).map) = 2
    /\ Unwrap(last.value).map[1].key = 1
    /\ Unwrap(last.value).read = Some(Unwrap(last.value).map)

====
